---- MODULE Spec2Model ----
(***************************************************************************)
(* DocManager: the documents table and its policies (sql/schema.sql), the  *)
(* CRUD and listing calls of js/documents.js, the full-text search and its *)
(* debounce of js/search.js, and the loading path of js/app.js.            *)
(*                                                                         *)
(* A text is a sequence of one-character strings, so that trim(), the      *)
(* tokenizer and the case folding of to_tsvector are computed and are not  *)
(* the identity.  A nullable column holds Nul (<<>>) or Val(x) (<<x>>).    *)
(***************************************************************************)
EXTENDS Integers, Sequences, FiniteSets, TLC

\* ------------------------------------------------------------ bounds
\* committed writes: inserts, updates and deletes of documents, and inserts of
\* historique_recherches
MaxEcritures == 2
\* rows already stored when the paging specification starts
NbSeed == 11
\* writes on top of the stored rows in the paging specification
MaxAjoutsPages == 2
\* keystrokes in the search box
MaxFrappes == 3
\* requests sent by the page
MaxRequetes == 2

\* ------------------------------------------------------------ program constants
DOCS_PAR_PAGE == 12
DELAI_RECHERCHE == 350
DELAI_RECHARGEMENT == 200

Users == {"u1", "u2"}
TypesDoc == {"pdf", "note", "lien", "image"}

Nul == <<>>
Val(x) == <<x>>
EstNul(v) == v = <<>>

\* ------------------------------------------------------------ texts
EstEspace(c) == c = " "

RECURSIVE TrimDebut(_)
TrimDebut(s) ==
    IF s = <<>> THEN <<>>
    ELSE IF EstEspace(Head(s)) THEN TrimDebut(Tail(s)) ELSE s

RECURSIVE TrimFin(_)
TrimFin(s) ==
    IF s = <<>> THEN <<>>
    ELSE IF EstEspace(s[Len(s)]) THEN TrimFin(SubSeq(s, 1, Len(s) - 1)) ELSE s

\* String.prototype.trim
Trim(s) == TrimFin(TrimDebut(s))

\* code unit order of the characters the model uses
Rang(c) ==
    CASE c = " " -> 0
      [] c = "A" -> 1
      [] c = "B" -> 2
      [] c = "a" -> 3
      [] c = "b" -> 4
      [] c = "x" -> 5
      [] c = "y" -> 6
      [] OTHER -> 7

\* s sorts strictly before t (comparison of two texts, character by character)
RECURSIVE TexteAvant(_, _)
TexteAvant(s, t) ==
    IF t = <<>> THEN FALSE
    ELSE IF s = <<>> THEN TRUE
    ELSE IF Rang(Head(s)) # Rang(Head(t)) THEN Rang(Head(s)) < Rang(Head(t))
    ELSE TexteAvant(Tail(s), Tail(t))

Minuscule(c) ==
    CASE c = "A" -> "a"
      [] c = "B" -> "b"
      [] OTHER -> c

\* the words of a text: maximal runs of non-space characters
RECURSIVE Mots(_)
Mots(s) ==
    LET t == TrimDebut(s) IN
    IF t = <<>> THEN {}
    ELSE LET n == CHOOSE k \in 1..Len(t) :
                      /\ \A i \in 1..k : ~EstEspace(t[i])
                      /\ (k = Len(t) \/ EstEspace(t[k + 1]))
         IN {SubSeq(t, 1, n)} \cup Mots(SubSeq(t, n + 1, Len(t)))

\* to_tsvector('french', text): the lexemes of the words, case folded
to_tsvector(s) == {[i \in 1..Len(w) |-> Minuscule(w[i])] : w \in Mots(s)}

setweight(v, poids) == {[lexeme |-> l, poids |-> poids] : l \in v}

COALESCE(v, defaut) == IF EstNul(v) THEN defaut ELSE v[1]

\* the generated column search_vector of the documents table
search_vector(titre, description, contenu) ==
    setweight(to_tsvector(titre), "A")
      \cup setweight(to_tsvector(COALESCE(description, <<>>)), "B")
      \cup setweight(to_tsvector(COALESCE(contenu, <<>>)), "C")

\* plainto_tsquery('french', terme): the conjunction of the term's lexemes
plainto_tsquery(terme) == to_tsvector(terme)

\* search_vector @@ query
Correspond(vecteur, requete) ==
    /\ requete # {}
    /\ \A l \in requete : \E e \in vecteur : e.lexeme = l

\* the elements of a sequence
Elements(s) == {s[i] : i \in 1..Len(s)}

\* array overlap (&&) in the place of containment
ContientUnDes(tags, filtre) ==
    /\ ~EstNul(tags)
    /\ Elements(filtre) \cap Elements(tags[1]) # {}

\* tags @> filtre (array containment; NULL @> x is not true)
Contient(tags, filtre) ==
    /\ ~EstNul(tags)
    /\ Elements(filtre) \subseteq Elements(tags[1])

\* data.tags.map(t => t.trim()).filter(t => t.length > 0)
TagsPropres(tags) == SelectSeq([i \in 1..Len(tags) |-> Trim(tags[i])], LAMBDA t : Len(t) > 0)

\* ------------------------------------------------------------ state
VARIABLES
    documents,              \* the rows of table documents
    historique_recherches,  \* the rows of table historique_recherches, oldest first
    horloge,                \* NOW() of the last committed write
    prochainId,             \* the next id gen_random_uuid() hands out
    supprimes,              \* the rows a DELETE has removed, as they were
    journal,                \* the update requests the database has answered, in order
    reponse,                \* what the last call of the query surface returned
    pagesVues,              \* paging specification: the slice seen on each page
    balayage,               \* paging specification: the filters being paged through
    etatApp,                \* app.js: the global state of the page
    debounceTimer,          \* search.js: the handle of the last timer set
    minuteries,             \* the timers of the page that have not run yet
    requetes,               \* the requests of the page that are in flight
    grille,                 \* what the documents grid shows
    emises,                 \* the number of requests the page has sent
    rafale,                 \* the terms typed since a timer last ran
    lancements,             \* the queries started by a timer, with the burst before each
    lateral,                \* what the tags sidebar and the statistics show
    formulaire,             \* the document form: shown or not, its fields, its button
    pagination,             \* the pagination bar: shown or not, its two buttons
    champRecherche          \* what the search box holds

varsBase == <<documents, historique_recherches, horloge, prochainId, supprimes, journal>>
varsPages == <<pagesVues, balayage>>
varsPageWeb ==
    <<etatApp, debounceTimer, minuteries, requetes, grille, emises, rafale, lancements,
      lateral, formulaire, pagination, champRecherche>>
vars == <<documents, historique_recherches, horloge, prochainId, supprimes, journal, reponse,
          pagesVues, balayage, etatApp, debounceTimer, minuteries, requetes, grille, emises,
          rafale, lancements, lateral, formulaire, pagination, champRecherche>>

\* ------------------------------------------------------------ table documents
\* GENERATED ALWAYS AS (...) STORED: recomputed by every INSERT and UPDATE of a row
Regenerer(d) ==
    [d EXCEPT !.search_vector = search_vector(d.titre, d.description, d.contenu)]

\* trigger_update_date_modification, BEFORE UPDATE FOR EACH ROW
update_date_modification(d, now) == [d EXCEPT !.date_modification = now]

\* CHECK (type_doc IN ('pdf', 'note', 'lien', 'image')); a NULL passes a CHECK
CheckTypeDoc(d) == EstNul(d.type_doc) \/ d.type_doc[1] \in TypesDoc

\* the table read with the policy dropped
VisiblesSansPolitique(u) == documents

\* policy documents_user_isolation, USING (auth.uid() = user_id): the rows a
\* statement run for user u can see, change or delete
Visibles(u) == {d \in documents : d.user_id = u}

\* the policy's WITH CHECK (auth.uid() = user_id) on a row written for user u
WithCheck(u, d) == d.user_id = u

\* ------------------------------------------------------------ select
Min(a, b) == IF a < b THEN a ELSE b

\* d comes strictly before e under .order(tri, {ascending: tri === 'titre'});
\* a select without .order() ("aucun") puts no row before another
Avant(d, e, tri) ==
    CASE tri = "titre" -> TexteAvant(d.titre, e.titre)
      [] tri = "date_creation" -> d.date_creation > e.date_creation
      [] OTHER -> FALSE

\* every order in which the rows of S can come back: rows with equal sort keys,
\* and all rows of a select without ORDER BY, come in an order SQL leaves open
RECURSIVE Ordres(_, _)
Ordres(S, tri) ==
    IF S = {} THEN {<<>>}
    ELSE UNION {{<<d>> \o s : s \in Ordres(S \ {d}, tri)} :
                d \in {x \in S : \A y \in S : ~Avant(y, x, tri)}}

\* .range(offset, offset + DOCS_PAR_PAGE - 1) of an ordered result
Plage(lignes, offset) ==
    SubSeq(lignes, offset + 1, Min(offset + DOCS_PAR_PAGE, Len(lignes)))

\* An error message is the sequence of its words.
\* the answers of a select with {count: 'exact'} and .range(): the slice and the
\* exact count of S.  PostgREST knows the count and answers 416 "Requested range
\* not satisfiable" (an error for the client) when the offset is beyond it.
Select(S, tri, offset) ==
    IF offset > Cardinality(S)
    THEN {[data |-> <<>>, count |-> 0,
           error |-> <<"Requested", "range", "not", "satisfiable">>]}
    ELSE {[data |-> Plage(o, offset), count |-> Cardinality(S), error |-> <<>>] :
          o \in Ordres(S, tri)}

\* ------------------------------------------------------------ documents.js
FiltresDefaut ==
    [type_doc |-> "", tags |-> <<>>, favoris |-> FALSE, tri |-> "date_creation", page |-> 0]

\* the rows that pass the filters getDocuments adds to its query
LignesGetDocuments(u, f) ==
    {d \in Visibles(u) :
        /\ (f.type_doc # "" => d.type_doc = Val(f.type_doc))
        /\ (f.favoris => d.est_favori)
        /\ (Len(f.tags) > 0 => Contient(d.tags, f.tags))}

\* getDocuments(filtres) called by user u: what it can return or throw
ResGetDocuments(u, f) ==
    {IF r.error # <<>>
     THEN [documents |-> <<>>, total |-> 0, erreur |-> "Impossible de charger les documents"]
     ELSE [documents |-> r.data, total |-> r.count, erreur |-> ""] :
     r \in Select(LignesGetDocuments(u, f), f.tri, f.page * DOCS_PAR_PAGE)}

\* String.prototype.includes on messages: motif occurs in message
Inclut(message, motif) ==
    \E i \in 0..(Len(message) - Len(motif)) :
        SubSeq(message, i + 1, i + Len(motif)) = motif

\* the errors with which a failing backend answers the search query: the query
\* text is rejected, or the backend is not reached
PannesRecherche ==
    {<<"syntax", "error", "in", "tsquery">>, <<"connection", "error">>}

\* the error handling without the special case of the syntax error
ErreurRechercheToujoursLevee(message) ==
    [documents |-> <<>>, total |-> 0, erreur |-> "Erreur pendant la recherche",
     rejet |-> message]

\* if (error) of rechercherDocuments: the empty result for a syntax error, a
\* throw for every other error; rejet keeps the backend's message
ErreurRecherche(message) ==
    IF Inclut(message, <<"syntax", "error">>)
    THEN [documents |-> <<>>, total |-> 0, erreur |-> "", rejet |-> message]
    ELSE [documents |-> <<>>, total |-> 0, erreur |-> "Erreur pendant la recherche",
          rejet |-> message]

\* the rows the full-text query of rechercherDocuments selects
LignesRecherche(u, termePropre, f) ==
    {d \in Visibles(u) :
        /\ Correspond(d.search_vector, plainto_tsquery(termePropre))
        /\ (f.type_doc # "" => d.type_doc = Val(f.type_doc))}

\* the search without its early return for a blank term
ResRechercherSansRepli(u, terme, f) ==
    {IF r.error # <<>>
     THEN ErreurRecherche(r.error)
     ELSE [documents |-> r.data, total |-> r.count, erreur |-> "", rejet |-> <<>>] :
     r \in Select(LignesRecherche(u, Trim(terme), f), "aucun", f.page * DOCS_PAR_PAGE)}

\* rechercherDocuments(terme, filtres) called by user u: what it can return or throw
ResRechercherDocuments(u, terme, f) ==
    IF Len(Trim(terme)) = 0
    THEN {[documents |-> r.documents, total |-> r.total, erreur |-> r.erreur,
           rejet |-> <<>>] : r \in ResGetDocuments(u, f)}
    ELSE {IF r.error # <<>>
          THEN ErreurRecherche(r.error)
          ELSE [documents |-> r.data, total |-> r.count, erreur |-> "", rejet |-> <<>>] :
          r \in Select(LignesRecherche(u, Trim(terme), f), "aucun", f.page * DOCS_PAR_PAGE)}

\* does rechercherDocuments reach sauvegarderRecherche(termePropre)?
SauvegardeRecherche(terme, res) == Len(Trim(terme)) > 0 /\ res.rejet = <<>>

\* the least text of a non-empty set, and Array.prototype.sort() of a set of texts
MinTexte(S) == CHOOSE t \in S : \A x \in S : ~TexteAvant(x, t)

RECURSIVE Trier(_)
Trier(S) == IF S = {} THEN <<>> ELSE <<MinTexte(S)>> \o Trier(S \ {MinTexte(S)})

\* the distinct tags without the final sort, latest first
ResGetTousLesTagsSansTri(u) ==
    LET t == Trier(UNION {IF EstNul(d.tags) THEN {} ELSE Elements(d.tags[1]) :
                          d \in Visibles(u)})
    IN  [i \in 1..Len(t) |-> t[Len(t) + 1 - i]]

\* getTousLesTags() called by user u
ResGetTousLesTags(u) ==
    Trier(UNION {IF EstNul(d.tags) THEN {} ELSE Elements(d.tags[1]) : d \in Visibles(u)})

\* a lookup that tells the caller when the id is a row of another owner
ResGetDocumentAccesRefuse(u, id) ==
    LET lignes == {d \in Visibles(u) : d.id = id} IN
    IF Cardinality(lignes) = 1
    THEN [documents |-> <<CHOOSE d \in lignes : TRUE>>, total |-> 1, erreur |-> ""]
    ELSE IF \E d \in documents : d.id = id
    THEN [documents |-> <<>>, total |-> 0, erreur |-> "Document d'un autre utilisateur"]
    ELSE [documents |-> <<>>, total |-> 0, erreur |-> "Document introuvable"]

\* getDocument(id) called by user u: .eq('id', id).single()
ResGetDocument(u, id) ==
    LET lignes == {d \in Visibles(u) : d.id = id} IN
    IF Cardinality(lignes) = 1
    THEN [documents |-> <<CHOOSE d \in lignes : TRUE>>, total |-> 1, erreur |-> ""]
    ELSE [documents |-> <<>>, total |-> 0, erreur |-> "Document introuvable"]

\* the row ajouterDocument(data) inserts for user u
LigneInseree(u, data, id, now) ==
    Regenerer(
      [id |-> id,
       user_id |-> u,
       titre |-> Trim(data.titre),
       description |-> IF EstNul(data.description) \/ data.description = Val(<<>>)
                       THEN Nul ELSE data.description,
       type_doc |-> data.type_doc,
       contenu |-> IF EstNul(data.contenu) \/ data.contenu = Val(<<>>)
                   THEN Nul ELSE data.contenu,
       tags |-> IF EstNul(data.tags) \/ Len(TagsPropres(data.tags[1])) = 0
                THEN Nul ELSE Val(TagsPropres(data.tags[1])),
       date_creation |-> now,
       date_modification |-> now,
       taille_kb |-> IF data.taille_kb = Val(0) THEN Nul ELSE data.taille_kb,
       est_favori |-> data.est_favori,
       search_vector |-> {}])

\* the columns modifierDocument copies from data into updateData
ChampsModifiables ==
    {"titre", "description", "type_doc", "contenu", "est_favori", "taille_kb", "tags"}

\* an updateData that names every column and empties those data leaves out
UpdateDataComplet(data) ==
    [k \in ChampsModifiables |->
        CASE k \notin DOMAIN data ->
               (CASE k = "titre" -> <<>> [] k = "est_favori" -> FALSE [] OTHER -> Nul)
          [] k = "titre" -> Trim(data.titre)
          [] k = "tags" -> IF EstNul(data.tags) THEN Nul ELSE Val(TagsPropres(data.tags[1]))
          [] OTHER -> data[k]]

\* the updateData modifierDocument builds from the fields data provides
UpdateData(data) ==
    [k \in DOMAIN data \cap ChampsModifiables |->
        CASE k = "titre" -> Trim(data.titre)
          [] k = "tags" -> IF EstNul(data.tags) THEN Nul ELSE Val(TagsPropres(data.tags[1]))
          [] OTHER -> data[k]]

\* an update that leaves the stored vector as it was
LigneModifieeSansVecteur(d, data, now) ==
    LET u == UpdateData(data) IN
    update_date_modification(
        [k \in DOMAIN d |-> IF k \in DOMAIN u THEN u[k] ELSE d[k]], now)

\* an update that keeps the values of a row that an earlier update has written
LigneModifieePremierGagne(d, data, now) ==
    LET u == UpdateData(data) IN
    IF d.date_modification > d.date_creation
    THEN update_date_modification(d, now)
    ELSE Regenerer(update_date_modification(
             [k \in DOMAIN d |-> IF k \in DOMAIN u THEN u[k] ELSE d[k]], now))

\* UPDATE documents SET updateData: the new version of row d
LigneModifiee(d, data, now) ==
    LET u == UpdateData(data) IN
    Regenerer(update_date_modification(
        [k \in DOMAIN d |-> IF k \in DOMAIN u THEN u[k] ELSE d[k]], now))

\* ------------------------------------------------------------ inputs
\* what the callers pass to ajouterDocument: a title to trim and fold, a tag to
\* trim, texts that put the same word in the title, the description, the content,
\* a title of white space only, a type outside the enum
SaisieTitre ==
    [titre |-> <<" ", "A">>, description |-> Nul, contenu |-> Nul,
     type_doc |-> Val("note"), tags |-> Val(<< <<"x">>, <<" ", "y">> >>),
     taille_kb |-> Nul, est_favori |-> FALSE]

SaisieContenu ==
    [titre |-> <<"b">>, description |-> Nul, contenu |-> Val(<<"a">>),
     type_doc |-> Val("pdf"), tags |-> Val(<< <<"x">> >>),
     taille_kb |-> Val(5), est_favori |-> TRUE]

SaisieDescription ==
    [titre |-> <<" ">>, description |-> Val(<<"a", " ", "b">>), contenu |-> Nul,
     type_doc |-> Val("note"), tags |-> Nul,
     taille_kb |-> Nul, est_favori |-> FALSE]

SaisieTypeInconnu ==
    [titre |-> <<"a">>, description |-> Nul, contenu |-> Nul,
     type_doc |-> Val("doc"), tags |-> Nul,
     taille_kb |-> Nul, est_favori |-> FALSE]

Saisies == {SaisieTitre, SaisieContenu, SaisieDescription, SaisieTypeInconnu}

\* what the callers pass to modifierDocument: a title to trim, with an owner
\* field; a content with tags of which one is blank and two are equal once trimmed
Modifs ==
    {[titre |-> <<"b", " ">>, user_id |-> "u2"],
     [contenu |-> Val(<<"b">>), tags |-> Val(<< <<"y">>, <<" ">>, <<" ", "y">> >>)]}

\* the filter objects of the callers: none, a type, one tag, two tags, the
\* favourites alone and with the others, the other sort column, the second page
Filtres ==
    {FiltresDefaut,
     [FiltresDefaut EXCEPT !.type_doc = "note"],
     [FiltresDefaut EXCEPT !.tags = << <<"x">> >>],
     [FiltresDefaut EXCEPT !.tags = << <<"x">>, <<"y">> >>],
     [FiltresDefaut EXCEPT !.favoris = TRUE],
     [FiltresDefaut EXCEPT !.favoris = TRUE, !.type_doc = "note", !.tags = << <<"x">> >>],
     [FiltresDefaut EXCEPT !.tri = "titre"],
     [FiltresDefaut EXCEPT !.page = 1]}

\* the terms typed: empty, blank, and a word to trim and fold
Termes == {<<>>, <<" ">>, <<" ", "A">>}

\* ------------------------------------------------------------ initial state
ReponseVide ==
    [op |-> "aucune", par |-> "", terme |-> <<>>, filtres |-> FiltresDefaut, id |-> 0,
     documents |-> <<>>, total |-> 0, tags |-> <<>>, erreur |-> "",
     sauvegarde |-> FALSE, rejet |-> <<>>, historique |-> "non appelee"]

\* the writes committed so far
Ecritures == horloge + Len(historique_recherches)

Rep(op, u, terme, f, id, res) ==
    [op |-> op, par |-> u, terme |-> terme, filtres |-> f, id |-> id,
     documents |-> res.documents, total |-> res.total, tags |-> <<>>,
     erreur |-> res.erreur, sauvegarde |-> FALSE, rejet |-> <<>>,
     historique |-> "non appelee"]

InitBase ==
    /\ documents = {}
    /\ historique_recherches = <<>>
    /\ horloge = 0
    /\ prochainId = 1
    /\ supprimes = {}
    /\ journal = <<>>
    /\ reponse = ReponseVide

InitPages ==
    /\ pagesVues = <<>>
    /\ balayage = FiltresDefaut

\* the document form before it is first opened: hidden, its button enabled, no
\* save awaited (envoi holds the data of the save soumettreDocument awaits)
FormulaireFerme ==
    [ouvert |-> FALSE, docId |-> 0, erreur |-> "",
     bouton |-> [disabled |-> FALSE, textContent |-> "Enregistrer"], envoi |-> Nul]

\* the pagination bar while no listing of more than one page is shown
PaginationCachee == [visible |-> FALSE, prevDisabled |-> TRUE, nextDisabled |-> TRUE]

InitPageWeb ==
    /\ etatApp = [utilisateur |-> "", filtres |-> FiltresDefaut, totalDocuments |-> 0,
                  rechercheCourante |-> <<>>]
    /\ debounceTimer = 0
    /\ minuteries = {}
    /\ requetes = {}
    /\ grille = [etat |-> "vide", requete |-> 0, documents |-> <<>>, total |-> 0,
                 terme |-> <<>>]
    /\ emises = 0
    /\ rafale = <<>>
    /\ lancements = <<>>
    /\ lateral = [tags |-> [etat |-> "chargement", liste |-> <<>>],
                  stats |-> [total |-> 0, favoris |-> 0]]
    /\ formulaire = FormulaireFerme
    /\ pagination = PaginationCachee
    /\ champRecherche = <<>>

Init == InitBase /\ InitPages /\ InitPageWeb

\* ------------------------------------------------------------ the query surface
getDocuments ==
    \E u \in Users, f \in Filtres :
      \E res \in ResGetDocuments(u, f) :
        /\ reponse' = Rep("getDocuments", u, <<>>, f, 0, res)
        /\ UNCHANGED <<varsBase, varsPages, varsPageWeb>>

\* how a call of sauvegarderRecherche ends: the row is inserted, getUser()
\* gives no user, getUser() rejects, the insert is refused or rejects
IssuesSauvegarde == {"ecrit", "sans utilisateur", "getUser rejette", "insert refuse"}

\* sauvegarderRecherche(terme) for user u: the rows of historique_recherches
\* after it; every failure is caught and leaves them as they were
sauvegarderRecherche(u, terme, issue) ==
    IF issue = "ecrit"
    THEN Append(historique_recherches, [user_id |-> u, terme_recherche |-> terme])
    ELSE historique_recherches

\* a search that awaits the history write outside of a try block
RetourRechercheAttendue(res, issue) ==
    IF issue \in {"getUser rejette", "insert refuse"}
    THEN [documents |-> <<>>, total |-> 0, erreur |-> "Erreur pendant la recherche",
          rejet |-> res.rejet]
    ELSE res

\* what rechercherDocuments returns after it has started sauvegarderRecherche:
\* the promise is dropped, the result is that of the query
RetourRecherche(res, issue) == res

\* rechercherDocuments(terme, f) called by user u, with the answer res of the
\* query and the issue of the history write ("non appelee": not started)
Rechercher(u, terme, f, res, issue) ==
    /\ SauvegardeRecherche(terme, res) <=> issue # "non appelee"
    /\ issue = "ecrit" => Ecritures < MaxEcritures
    /\ reponse' = [Rep("rechercherDocuments", u, terme, f, 0, RetourRecherche(res, issue))
                     EXCEPT !.sauvegarde = SauvegardeRecherche(terme, res),
                            !.rejet = res.rejet,
                            !.historique = issue]
    /\ historique_recherches' = sauvegarderRecherche(u, Trim(terme), issue)
    /\ UNCHANGED <<documents, horloge, prochainId, supprimes, journal, varsPages, varsPageWeb>>

\* the history insert passes the policy historique_user_isolation (user_id = u),
\* or is refused
rechercherDocuments ==
    \E u \in Users, terme \in Termes, f \in Filtres :
      \E res \in ResRechercherDocuments(u, terme, f) :
        \E issue \in {"non appelee", "ecrit", "insert refuse"} :
            Rechercher(u, terme, f, res, issue)

getDocument ==
    \E u \in Users, id \in 1..prochainId :
        /\ reponse' = Rep("getDocument", u, <<>>, FiltresDefaut, id, ResGetDocument(u, id))
        /\ UNCHANGED <<varsBase, varsPages, varsPageWeb>>

getTousLesTags ==
    \E u \in Users :
        /\ reponse' = [ReponseVide EXCEPT !.op = "getTousLesTags", !.par = u,
                                          !.tags = ResGetTousLesTags(u)]
        /\ UNCHANGED <<varsBase, varsPages, varsPageWeb>>

ajouterDocument ==
    \E u \in Users, data \in Saisies :
      LET d == LigneInseree(u, data, prochainId, horloge + 1) IN
        /\ IF CheckTypeDoc(d) /\ WithCheck(u, d)
           THEN /\ Ecritures < MaxEcritures
                /\ documents' = documents \cup {d}
                /\ horloge' = horloge + 1
                /\ prochainId' = prochainId + 1
                /\ reponse' = Rep("ajouterDocument", u, <<>>, FiltresDefaut, d.id,
                                  [documents |-> <<d>>, total |-> 1, erreur |-> ""])
           ELSE /\ reponse' = Rep("ajouterDocument", u, <<>>, FiltresDefaut, 0,
                                  [documents |-> <<>>, total |-> 0,
                                   erreur |-> "Erreur lors de la création du document"])
                /\ UNCHANGED <<documents, horloge, prochainId>>
        /\ UNCHANGED <<historique_recherches, supprimes, journal, varsPages, varsPageWeb>>

\* an update that runs without the policy of the table
ModifierSansPolitique(u, id, data, op) ==
    LET cibles == {d \in documents : d.id = id}
        nouv == {LigneModifiee(d, data, horloge + 1) : d \in cibles}
    IN  /\ IF Cardinality(cibles) = 1 /\ \A d \in nouv : CheckTypeDoc(d)
           THEN /\ Ecritures < MaxEcritures
                /\ documents' = (documents \ cibles) \cup nouv
                /\ horloge' = horloge + 1
                /\ reponse' = Rep(op, u, <<>>, FiltresDefaut, id,
                                  [documents |-> <<CHOOSE d \in nouv : TRUE>>,
                                   total |-> 1, erreur |-> ""])
           ELSE /\ reponse' = Rep(op, u, <<>>, FiltresDefaut, id,
                                  [documents |-> <<>>, total |-> 0,
                                   erreur |-> "Impossible de modifier le document"])
                /\ UNCHANGED <<documents, horloge>>
        /\ UNCHANGED <<historique_recherches, prochainId, supprimes, journal, varsPages,
                       varsPageWeb>>

\* an update that copies every field of data into the row, the owner included,
\* and runs without the WITH CHECK of the policy
AppliquerProprietaireLibre(u, id, data, op) ==
    LET cibles == {d \in Visibles(u) : d.id = id}
        nouv == {[k \in DOMAIN d |-> IF k \in DOMAIN data THEN data[k] ELSE d[k]] :
                    d \in cibles}
    IN  /\ IF Cardinality(cibles) = 1
           THEN /\ Ecritures < MaxEcritures
                /\ documents' = (documents \ cibles) \cup nouv
                /\ horloge' = horloge + 1
                /\ reponse' = Rep(op, u, <<>>, FiltresDefaut, id,
                                  [documents |-> <<CHOOSE d \in nouv : TRUE>>,
                                   total |-> 1, erreur |-> ""])
           ELSE /\ reponse' = Rep(op, u, <<>>, FiltresDefaut, id,
                                  [documents |-> <<>>, total |-> 0,
                                   erreur |-> "Impossible de modifier le document"])
                /\ UNCHANGED <<documents, horloge>>
        /\ UNCHANGED <<historique_recherches, prochainId, supprimes>>

\* UPDATE documents SET updateData WHERE id = id, then .select().single(), run
\* for user u under the policy: the table and the outcome of modifierDocument
Appliquer(u, id, data, op) ==
    LET cibles == {d \in Visibles(u) : d.id = id}
        nouv == {LigneModifiee(d, data, horloge + 1) : d \in cibles}
    IN  /\ IF /\ Cardinality(cibles) = 1
              /\ \A d \in nouv : CheckTypeDoc(d) /\ WithCheck(u, d)
           THEN /\ Ecritures < MaxEcritures
                /\ documents' = (documents \ cibles) \cup nouv
                /\ horloge' = horloge + 1
                /\ reponse' = Rep(op, u, <<>>, FiltresDefaut, id,
                                  [documents |-> <<CHOOSE d \in nouv : TRUE>>,
                                   total |-> 1, erreur |-> ""])
           ELSE /\ reponse' = Rep(op, u, <<>>, FiltresDefaut, id,
                                  [documents |-> <<>>, total |-> 0,
                                   erreur |-> "Impossible de modifier le document"])
                /\ UNCHANGED <<documents, horloge>>
        /\ UNCHANGED <<historique_recherches, prochainId, supprimes>>

\* modifierDocument(id, data) called by user u; op names the caller for reponse
Modifier(u, id, data, op) ==
    /\ Appliquer(u, id, data, op)
    /\ UNCHANGED <<journal, varsPages, varsPageWeb>>

modifierDocument ==
    \E u \in Users, id \in 1..prochainId, data \in Modifs :
        Modifier(u, id, data, "modifierDocument")

toggleFavori ==
    \E u \in Users, id \in 1..prochainId, estFavori \in BOOLEAN :
        Modifier(u, id, [est_favori |-> estFavori], "toggleFavori")

\* a delete that reports success and leaves the row in the table
supprimerDocumentSansEffet ==
    \E u \in Users, id \in 1..prochainId :
      LET cibles == {d \in Visibles(u) : d.id = id} IN
        /\ cibles # {}
        /\ Ecritures < MaxEcritures
        /\ supprimes' = supprimes \cup cibles
        /\ horloge' = horloge + 1
        /\ reponse' = Rep("supprimerDocument", u, <<>>, FiltresDefaut, id,
                          [documents |-> <<>>, total |-> 0, erreur |-> ""])
        /\ UNCHANGED <<documents, historique_recherches, prochainId, journal, varsPages,
                       varsPageWeb>>

\* DELETE ... WHERE id = id under the policy: no row is no error
supprimerDocument ==
    \E u \in Users, id \in 1..prochainId :
      LET cibles == {d \in Visibles(u) : d.id = id} IN
        /\ IF cibles # {}
           THEN /\ Ecritures < MaxEcritures
                /\ documents' = documents \ cibles
                /\ supprimes' = supprimes \cup cibles
                /\ horloge' = horloge + 1
           ELSE UNCHANGED <<documents, supprimes, horloge>>
        /\ reponse' = Rep("supprimerDocument", u, <<>>, FiltresDefaut, id,
                          [documents |-> <<>>, total |-> 0, erreur |-> ""])
        /\ UNCHANGED <<historique_recherches, prochainId, journal, varsPages, varsPageWeb>>

Next ==
    \/ getDocuments
    \/ rechercherDocuments
    \/ getDocument
    \/ getTousLesTags
    \/ ajouterDocument
    \/ modifierDocument
    \/ toggleFavori
    \/ supprimerDocument

Spec == Init /\ [][Next]_vars

\* ------------------------------------------------------------ claims, query surface
EnsembleTags(d) == IF EstNul(d.tags) THEN {} ELSE Elements(d.tags[1])

Lectures == {"getDocuments", "rechercherDocuments", "getDocument"}

Blanc(terme) == Len(Trim(terme)) = 0

Resultat(r) == [documents |-> r.documents, total |-> r.total, erreur |-> r.erreur]

\* C1: whatever getDocuments, rechercherDocuments, getDocument and getTousLesTags
\* return to a user is that user's: every row has his user_id and is a stored
\* row, every tag is a tag of one of his rows.
C1_OwnerIsolation ==
    /\ reponse.op \in Lectures =>
         \A i \in 1..Len(reponse.documents) :
            /\ reponse.documents[i].user_id = reponse.par
            /\ reponse.documents[i] \in documents
    /\ reponse.op = "getTousLesTags" =>
         \A t \in Elements(reponse.tags) :
            \E d \in documents : d.user_id = reponse.par /\ t \in EnsembleTags(d)

\* a search returned a row while another owner stores a row with the same text and tags
C1_Witness ==
    /\ reponse.op = "rechercherDocuments"
    /\ ~Blanc(reponse.terme)
    /\ Len(reponse.documents) = 1
    /\ \E d \in documents :
          /\ d.user_id # reponse.par
          /\ d.titre = reponse.documents[1].titre
          /\ d.description = reponse.documents[1].description
          /\ d.contenu = reponse.documents[1].contenu
          /\ d.tags = reponse.documents[1].tags

\* C2: a search for an empty or blank term returns what getDocuments returns for
\* the same filters (rows, order, total, failure) and saves no history entry.
C2_EmptySearchIsListing ==
    (reponse.op = "rechercherDocuments" /\ Blanc(reponse.terme)) =>
        /\ Resultat(reponse) \in ResGetDocuments(reponse.par, reponse.filtres)
        /\ ~reponse.sauvegarde

\* a blank term, a filter, and rows returned
C2_Witness ==
    /\ reponse.op = "rechercherDocuments"
    /\ reponse.terme = <<" ">>
    /\ reponse.filtres.type_doc = "note"
    /\ Len(reponse.documents) = 1
    /\ Cardinality(Visibles(reponse.par)) = 2

\* the rows of user u that pass the type and favourite filters of f
LignesTypeFavori(u, f) ==
    {d \in documents :
        /\ d.user_id = u
        /\ (f.type_doc # "" => d.type_doc = Val(f.type_doc))
        /\ (f.favoris => d.est_favori)}

\* C3: getDocuments with tag filter T returns only rows whose tags include all
\* of T, counts every such row of the owner that passes the other filters, and
\* an empty T removes no row.
C3_TagContainment ==
    (reponse.op = "getDocuments" /\ reponse.erreur = "") =>
        LET T == Elements(reponse.filtres.tags)
            attendus == {d \in LignesTypeFavori(reponse.par, reponse.filtres) :
                            T \subseteq EnsembleTags(d)}
        IN  /\ \A i \in 1..Len(reponse.documents) :
                  T \subseteq EnsembleTags(reponse.documents[i])
            /\ reponse.total = Cardinality(attendus)
            /\ (reponse.total <= DOCS_PAR_PAGE /\ reponse.filtres.page = 0) =>
                  Elements(reponse.documents) = attendus

\* filter {x, y}: the row tagged {x, y} is returned, the owner's row tagged {x} is not
C3_Witness ==
    /\ reponse.op = "getDocuments"
    /\ Elements(reponse.filtres.tags) = {<<"x">>, <<"y">>}
    /\ Len(reponse.documents) = 1
    /\ \E d \in documents :
          /\ d.user_id = reponse.par
          /\ EnsembleTags(d) = {<<"x">>}

\* the rows that match the call recorded in reponse
Correspondants(r) ==
    IF r.op = "rechercherDocuments" /\ ~Blanc(r.terme)
    THEN {d \in documents :
             /\ d.user_id = r.par
             /\ Correspond(d.search_vector, plainto_tsquery(r.terme))
             /\ (r.filtres.type_doc # "" => d.type_doc = Val(r.filtres.type_doc))}
    ELSE {d \in LignesTypeFavori(r.par, r.filtres) :
             Elements(r.filtres.tags) \subseteq EnsembleTags(d)}

\* C5: a page beyond the last one, while rows match, gives an empty slice with
\* the exact total and no error.
C5_PagePastEnd ==
    ( /\ reponse.op \in {"getDocuments", "rechercherDocuments"}
      /\ reponse.rejet \notin PannesRecherche
      /\ Cardinality(Correspondants(reponse)) >= 1
      /\ reponse.filtres.page * DOCS_PAR_PAGE >= Cardinality(Correspondants(reponse)) ) =>
        /\ reponse.erreur = ""
        /\ reponse.documents = <<>>
        /\ reponse.total = Cardinality(Correspondants(reponse))

\* tier weights A > B > C
PoidsTier(p) == CASE p = "A" -> 3 [] p = "B" -> 2 [] OTHER -> 1

RECURSIVE Somme(_)
Somme(S) ==
    IF S = {} THEN 0
    ELSE LET e == CHOOSE x \in S : TRUE IN PoidsTier(e.poids) + Somme(S \ {e})

\* the relevance score of row d for a term: the tier weights of the term's
\* lexemes found in the row's vector, added up
Score(d, terme) == Somme({e \in d.search_vector : e.lexeme \in plainto_tsquery(terme)})

\* C6: the rows of a search come by score, highest first, and rows of equal
\* score by date_modification, latest first.
C6_SearchRanking ==
    (reponse.op = "rechercherDocuments" /\ ~Blanc(reponse.terme) /\ reponse.erreur = "") =>
        \A i, j \in 1..Len(reponse.documents) :
            i < j =>
              LET a == reponse.documents[i]
                  b == reponse.documents[j]
              IN  \/ Score(a, reponse.terme) > Score(b, reponse.terme)
                  \/ /\ Score(a, reponse.terme) = Score(b, reponse.terme)
                     /\ a.date_modification >= b.date_modification

\* C7: every row of a search passes the owner, type, tag, favourite and match
\* predicates that the call was given.
C7_SearchHonoursFilters ==
    (reponse.op = "rechercherDocuments" /\ ~Blanc(reponse.terme) /\ reponse.erreur = "") =>
        \A i \in 1..Len(reponse.documents) :
            LET d == reponse.documents[i] IN
              /\ d.user_id = reponse.par
              /\ (reponse.filtres.type_doc # "" => d.type_doc = Val(reponse.filtres.type_doc))
              /\ Elements(reponse.filtres.tags) \subseteq EnsembleTags(d)
              /\ (reponse.filtres.favoris => d.est_favori)
              /\ Correspond(d.search_vector, plainto_tsquery(reponse.terme))

\* the lexemes of the texts of row d, whatever their tier
LexemesDe(d) ==
    to_tsvector(d.titre) \cup to_tsvector(COALESCE(d.description, <<>>))
      \cup to_tsvector(COALESCE(d.contenu, <<>>))

VecteurAJour(d) ==
    /\ d.search_vector = search_vector(d.titre, d.description, d.contenu)
    /\ {e.lexeme : e \in d.search_vector} = LexemesDe(d)

\* C10: the stored vector of every row, and of every row handed to a caller,
\* is the vector of the row's current titre, description and contenu.
C10_VectorConsistent ==
    /\ \A d \in documents : VecteurAJour(d)
    /\ \A i \in 1..Len(reponse.documents) : VecteurAJour(reponse.documents[i])

\* a row whose title " A" was changed to "b " holds the lexeme b alone
C10_Witness ==
    /\ reponse.op = "modifierDocument"
    /\ reponse.erreur = ""
    /\ \E d \in documents :
          /\ d.id = reponse.id
          /\ d.date_modification > d.date_creation
          /\ EnsembleTags(d) = {<<"x">>, <<"y">>}
          /\ d.titre = <<"b">>
          /\ d.search_vector = {[lexeme |-> <<"b">>, poids |-> "A"]}

\* C11: a row removed by supprimerDocument is gone as a whole: no version of it
\* is stored, no later getDocuments, rechercherDocuments or getDocument returns
\* it, every row a read returns is a complete stored row, and getTousLesTags
\* returns only tags of rows that are still stored.
C11_DeleteRemoves ==
    /\ \A s \in supprimes : \A d \in documents : d.id # s.id
    /\ reponse.op \in Lectures =>
         \A i \in 1..Len(reponse.documents) :
            /\ reponse.documents[i] \in documents
            /\ \A s \in supprimes : reponse.documents[i].id # s.id
    /\ reponse.op = "getTousLesTags" =>
         \A t \in Elements(reponse.tags) :
            \E d \in Visibles(reponse.par) : t \in EnsembleTags(d)
    /\ (reponse.op = "supprimerDocument" /\ reponse.erreur = "") =>
         \A d \in Visibles(reponse.par) : d.id # reponse.id

\* the owner of a deleted row searches for a word of that row
C11_Witness ==
    /\ reponse.op = "rechercherDocuments"
    /\ reponse.erreur = ""
    /\ reponse.filtres.type_doc = ""
    /\ \E s \in supprimes :
          /\ s.user_id = reponse.par
          /\ Correspond(s.search_vector, plainto_tsquery(Trim(reponse.terme)))

\* C12: ajouterDocument succeeds only with a title that is not empty after
\* trimming and a type of the enum: the row it returns and stores has both.
C12_CreateValidation ==
    (reponse.op = "ajouterDocument" /\ reponse.erreur = "") =>
        /\ Len(reponse.documents) = 1
        /\ reponse.documents[1].titre # <<>>
        /\ ~EstNul(reponse.documents[1].type_doc)
        /\ reponse.documents[1].type_doc[1] \in TypesDoc

\* the outcome of a call by id that finds no row
Introuvable(op) ==
    CASE op = "getDocument" ->
           [documents |-> <<>>, total |-> 0, erreur |-> "Document introuvable"]
      [] op \in {"modifierDocument", "toggleFavori"} ->
           [documents |-> <<>>, total |-> 0, erreur |-> "Impossible de modifier le document"]
      [] OTHER -> [documents |-> <<>>, total |-> 0, erreur |-> ""]

ParId == {"getDocument", "modifierDocument", "toggleFavori", "supprimerDocument"}

\* C15: getDocument, modifierDocument and supprimerDocument called with the id of
\* a row of another owner end exactly as they do with an id that no row has.
C15_NotFoundIndistinguishable ==
    (reponse.op \in ParId /\ \A d \in Visibles(reponse.par) : d.id # reponse.id) =>
        Resultat(reponse) = Introuvable(reponse.op)

\* a call by id met the row of another owner
C15_Witness ==
    /\ reponse.op \in {"getDocument", "modifierDocument"}
    /\ \E d \in documents : d.id = reponse.id /\ d.user_id # reponse.par

\* C16: a stored row changes or leaves the table only in a modifierDocument,
\* toggleFavori or supprimerDocument called by its owner; called by another
\* user, they leave the row as it is, every field of it.
C16_OwnerOnlyMutation ==
    [][\A d \in documents :
          d \notin documents' =>
             /\ reponse'.op \in {"modifierDocument", "toggleFavori", "supprimerDocument"}
             /\ reponse'.par = d.user_id
             /\ reponse'.id = d.id]_vars

\* a user asked to delete or to star the row of another owner, which is still stored
C16_Witness ==
    /\ reponse.op \in {"supprimerDocument", "toggleFavori"}
    /\ \E d \in documents : d.id = reponse.id /\ d.user_id # reponse.par

\* C17: the rows of a listing come in the order of the requested sort column,
\* and rows with equal sort keys in the order of their ids, so that the order is
\* the same in every call over the same rows.
C17_DeterministicOrder ==
    (reponse.op = "getDocuments" /\ reponse.erreur = "") =>
        \A i, j \in 1..Len(reponse.documents) :
            i < j =>
              LET a == reponse.documents[i]
                  b == reponse.documents[j]
              IN  \/ Avant(a, b, reponse.filtres.tri)
                  \/ /\ ~Avant(b, a, reponse.filtres.tri)
                     /\ a.id < b.id

\* C18: the tags of the row that ajouterDocument or modifierDocument has stored
\* are trimmed, none is empty, and none occurs twice.
C18_TagsNormalised ==
    (reponse.op \in {"ajouterDocument", "modifierDocument"} /\ reponse.erreur = "") =>
        \A d \in Elements(reponse.documents) :
            \/ EstNul(d.tags)
            \/ LET tags == d.tags[1] IN
                 /\ \A i \in 1..Len(tags) : Trim(tags[i]) = tags[i] /\ tags[i] # <<>>
                 /\ \A i, j \in 1..Len(tags) : tags[i] = tags[j] => i = j

C22_OwnerImmutable ==
    [][/\ \A d \in documents : \A e \in documents' :
             e.id = d.id => e.user_id = d.user_id
       /\ \A e \in documents' :
             (\A d \in documents : d.id # e.id) =>
                 /\ reponse'.op = "ajouterDocument"
                 /\ reponse'.par = e.user_id]_vars

\* u1 has modified a row it had created, with a data that names u2 as the owner
C22_Witness ==
    /\ reponse.op = "modifierDocument"
    /\ reponse.erreur = ""
    /\ reponse.par = "u1"
    /\ \E d \in documents :
          /\ d.id = reponse.id
          /\ d.titre = <<"b">>
          /\ d.date_modification > d.date_creation
          /\ d.user_id = "u1"

\* ------------------------------------------------------------ searches with failures
\* The table holds stored rows of both users; the backend may fail to answer
\* the search query, and the history write may end in each of its ways.
InitPannes ==
    /\ documents = {LigneInseree("u1", SaisieTitre, 1, 0),
                    LigneInseree("u1", SaisieContenu, 2, 0),
                    LigneInseree("u2", SaisieTitre, 3, 0)}
    /\ historique_recherches = <<>>
    /\ horloge = 0
    /\ prochainId = 4
    /\ supprimes = {}
    /\ journal = <<>>
    /\ reponse = ReponseVide
    /\ InitPages
    /\ InitPageWeb

\* rechercherDocuments whose query is answered
rechercherDocumentsReponse ==
    \E u \in Users, terme \in Termes, f \in Filtres :
      \E res \in ResRechercherDocuments(u, terme, f) :
        \E issue \in IssuesSauvegarde \cup {"non appelee"} :
            Rechercher(u, terme, f, res, issue)

\* rechercherDocuments whose query the backend fails to answer
rechercherDocumentsPanne ==
    \E u \in Users, terme \in Termes, f \in Filtres, m \in PannesRecherche :
        /\ Len(Trim(terme)) > 0
        /\ Rechercher(u, terme, f, ErreurRecherche(m), "non appelee")

NextPannes ==
    \/ rechercherDocumentsReponse
    \/ rechercherDocumentsPanne

SpecPannes == InitPannes /\ [][NextPannes]_vars

\* C13: a search whose query the backend rejects with a syntax error returns
\* the empty result and does not throw; a search that the backend answers
\* with any other error throws.
C13_MalformedTerm ==
    (reponse.op = "rechercherDocuments" /\ ~Blanc(reponse.terme) /\ reponse.rejet # <<>>) =>
        IF reponse.rejet = <<"syntax", "error", "in", "tsquery">>
        THEN /\ reponse.erreur = ""
             /\ reponse.documents = <<>>
             /\ reponse.total = 0
        ELSE reponse.erreur = "Erreur pendant la recherche"

\* the backend rejected the query of a search that has a matching row
C13_Witness ==
    /\ reponse.op = "rechercherDocuments"
    /\ reponse.rejet = <<"syntax", "error", "in", "tsquery">>
    /\ reponse.erreur = ""
    /\ Correspondants(reponse) # {}

\* C14: however the history write of a search ends (row written, no user,
\* getUser() rejecting, insert refused), the search does not fail and returns
\* a result of its query over the stored rows.
C14_HistoryFireAndForget ==
    (reponse.op = "rechercherDocuments" /\ reponse.historique \in IssuesSauvegarde) =>
        /\ reponse.erreur = ""
        /\ [documents |-> reponse.documents, total |-> reponse.total,
            erreur |-> reponse.erreur, rejet |-> reponse.rejet]
              \in ResRechercherDocuments(reponse.par, reponse.terme, reponse.filtres)

\* a search returned a row although its history write was rejected
C14_Witness ==
    /\ reponse.op = "rechercherDocuments"
    /\ reponse.historique = "getUser rejette"
    /\ Len(reponse.documents) >= 1
    /\ historique_recherches = <<>>

\* ------------------------------------------------------------ paging through a listing
\* The table holds NbSeed rows of u1, stored by NbSeed calls of ajouterDocument
\* with titles "a", "aa", "aaa", ...; the caller then pages through getDocuments
\* with page = 0, 1, 2, ... under fixed filters, as changerPage(1) does.
TitreSeed(i) == [j \in 1..i |-> "a"]

SaisieSeed(i) ==
    [titre |-> TitreSeed(i), description |-> Nul, contenu |-> Nul,
     type_doc |-> Val("note"), tags |-> Nul, taille_kb |-> Nul, est_favori |-> FALSE]

SaisiesPages ==
    {[titre |-> <<"b">>, description |-> Nul, contenu |-> Nul,
      type_doc |-> Val("note"), tags |-> Nul, taille_kb |-> Nul, est_favori |-> FALSE],
     [titre |-> <<"b">>, description |-> Nul, contenu |-> Nul,
      type_doc |-> Val("pdf"), tags |-> Nul, taille_kb |-> Nul, est_favori |-> TRUE]}

FiltresPages ==
    [type_doc : {"", "note"}, tags : {<<>>}, favoris : {FALSE},
     tri : {"date_creation", "titre"}, page : {0}]

InitPagine ==
    /\ documents = {LigneInseree("u1", SaisieSeed(i), i, i) : i \in 1..NbSeed}
    /\ historique_recherches = <<>>
    /\ horloge = NbSeed
    /\ prochainId = NbSeed + 1
    /\ supprimes = {}
    /\ journal = <<>>
    /\ reponse = ReponseVide
    /\ InitPages
    /\ InitPageWeb

\* ajouterDocument(data) by u1; the pages seen so far are of another record set
ajouterDocumentPagine ==
    \E data \in SaisiesPages :
      LET d == LigneInseree("u1", data, prochainId, horloge + 1) IN
        /\ CheckTypeDoc(d) /\ WithCheck("u1", d)
        /\ prochainId <= NbSeed + MaxAjoutsPages
        /\ documents' = documents \cup {d}
        /\ horloge' = horloge + 1
        /\ prochainId' = prochainId + 1
        /\ reponse' = Rep("ajouterDocument", "u1", <<>>, FiltresDefaut, d.id,
                          [documents |-> <<d>>, total |-> 1, erreur |-> ""])
        /\ pagesVues' = <<>>
        /\ UNCHANGED <<historique_recherches, supprimes, journal, balayage, varsPageWeb>>

\* the caller picks filters and a sort column and starts at page 0
changerFiltresPagine ==
    \E f \in FiltresPages :
        /\ f # balayage
        /\ balayage' = f
        /\ pagesVues' = <<>>
        /\ UNCHANGED <<varsBase, reponse, varsPageWeb>>

\* getDocuments({...balayage, page}) for the next page not seen yet
getDocumentsPagine ==
    LET f == [balayage EXCEPT !.page = Len(pagesVues)] IN
      /\ Len(pagesVues) * DOCS_PAR_PAGE < Cardinality(LignesGetDocuments("u1", f))
      /\ \E res \in ResGetDocuments("u1", f) :
           /\ reponse' = Rep("getDocuments", "u1", <<>>, f, 0, res)
           /\ pagesVues' = Append(pagesVues, Resultat(reponse'))
      /\ UNCHANGED <<varsBase, balayage, varsPageWeb>>

NextPagine ==
    \/ ajouterDocumentPagine
    \/ changerFiltresPagine
    \/ getDocumentsPagine

SpecPagine == InitPagine /\ [][NextPagine]_vars

\* the rows that match the filters being paged through
CorrespondantsPagine ==
    {d \in LignesTypeFavori("u1", balayage) :
        Elements(balayage.tags) \subseteq EnsembleTags(d)}

RECURSIVE SommeLongueurs(_)
SommeLongueurs(pages) ==
    IF pages = <<>> THEN 0
    ELSE Len(Head(pages).documents) + SommeLongueurs(Tail(pages))

ToutesPagesVues ==
    /\ Len(pagesVues) >= 1
    /\ Len(pagesVues) * DOCS_PAR_PAGE >= Cardinality(CorrespondantsPagine)

\* the part of C4 that counts: every page carries the exact total, and the
\* slice lengths of all pages add up to it
C4_TotauxExacts ==
    /\ \A p \in 1..Len(pagesVues) :
          /\ pagesVues[p].erreur = ""
          /\ pagesVues[p].total = Cardinality(CorrespondantsPagine)
    /\ ToutesPagesVues => SommeLongueurs(pagesVues) = Cardinality(CorrespondantsPagine)

\* C4: over an unchanged record set and fixed filters, every page carries the
\* exact total, the slice lengths of pages 0, 1, 2, ... add up to it, and every
\* matching row is on exactly one page.
C4_PaginationTotal ==
    /\ C4_TotauxExacts
    /\ ToutesPagesVues =>
         \A d \in CorrespondantsPagine :
            Cardinality({p \in 1..Len(pagesVues) : d \in Elements(pagesVues[p].documents)}) = 1

\* two pages were read and together hold more rows than one page
C4_Witness ==
    /\ Len(pagesVues) = 2
    /\ ToutesPagesVues
    /\ SommeLongueurs(pagesVues) > DOCS_PAR_PAGE

\* ------------------------------------------------------------ the page: search.js and app.js
\* One browser page of user u1 over a table that holds two of his documents.
\* A request is sent in one step and answered in a later one; timers count down
\* in steps of UniteMs milliseconds.
Utilisateur == "u1"

RECURSIVE PGCD(_, _)
PGCD(a, b) == IF b = 0 THEN a ELSE PGCD(b, a % b)

UniteMs == PGCD(DELAI_RECHERCHE, DELAI_RECHARGEMENT)

TermesSaisis == {<<>>, <<"a">>, <<"b">>}

\* !terme.trim()
SansTerme(terme) == Len(Trim(terme)) = 0

\* the delay handleSearchInput gives to setTimeout
Delai(terme) == IF SansTerme(terme) THEN DELAI_RECHARGEMENT ELSE DELAI_RECHERCHE

RECURSIVE NbFrappesLancees(_)
NbFrappesLancees(l) ==
    IF l = <<>> THEN 0 ELSE Len(Head(l).rafale) + NbFrappesLancees(Tail(l))

\* the keystrokes handled so far
NbFrappes == Len(rafale) + NbFrappesLancees(lancements)

\* clearTimeout with the handle forgotten
clearTimeoutSansEffet(id) == minuteries

\* clearTimeout(id): the timer with this handle will not run
clearTimeout(id) == {m \in minuteries : m.id # id}

\* afficherChargement()
Chargement ==
    [etat |-> "chargement", requete |-> 0, documents |-> <<>>, total |-> 0, terme |-> <<>>]

\* afficherErreur(message)
Erreur(id) ==
    [etat |-> "erreur", requete |-> id, documents |-> <<>>, total |-> 0, terme |-> <<>>]

\* afficherDocuments(documents, total, termRecherche) for the answer of request id
Affichage(id, res, terme) ==
    [etat |-> IF Len(res.documents) = 0 THEN "vide" ELSE "documents",
     requete |-> id, documents |-> res.documents, total |-> res.total, terme |-> terme]

\* afficherChargement() and afficherDocuments() hide the pagination bar
Masquer(p) == [p EXCEPT !.visible = FALSE]

\* Math.ceil(total / DOCS_PAR_PAGE)
TotalPages(total) == (total + DOCS_PAR_PAGE - 1) \div DOCS_PAR_PAGE

\* mettreAJourPagination(total) with etatApp.filtres.page = page
mettreAJourPagination(p, total, page) ==
    IF TotalPages(total) <= 1
    THEN Masquer(p)
    ELSE [visible |-> TRUE, prevDisabled |-> page = 0,
          nextDisabled |-> page >= TotalPages(total) - 1]

\* afficherDocuments(documents, total): the pagination bar afterwards
PaginationAffichee(p, res, page) ==
    IF Len(res.documents) = 0 THEN Masquer(p) ELSE mettreAJourPagination(p, res.total, page)

\* the cards the user clicks a button of: the first and the last of the grid
CartesCliquees ==
    IF grille.etat = "documents"
    THEN {grille.documents[1], grille.documents[Len(grille.documents)]}
    ELSE {}

\* the request chargerDocuments() sends with the state e of the page
RequeteChargerDocuments(id, e) ==
    IF e.rechercheCourante # <<>>
    THEN [id |-> id, op |-> "rechercherDocuments", terme |-> e.rechercheCourante,
          filtres |-> e.filtres, origine |-> "chargerDocuments"]
    ELSE [id |-> id, op |-> "getDocuments", terme |-> <<>>,
          filtres |-> e.filtres, origine |-> "chargerDocuments"]

\* the request the search timer sends
RequeteRecherche(id, terme, e) ==
    [id |-> id, op |-> "rechercherDocuments", terme |-> terme,
     filtres |-> e.filtres, origine |-> "handleSearchInput"]

InitWeb ==
    /\ documents = {LigneInseree(Utilisateur, SaisieTitre, 1, 1),
                    LigneInseree(Utilisateur, SaisieContenu, 2, 2)}
    /\ historique_recherches = <<>>
    /\ horloge = 2
    /\ prochainId = 3
    /\ supprimes = {}
    /\ journal = <<>>
    /\ reponse = ReponseVide
    /\ InitPages
    /\ InitPageWeb

\* initialiserApp(): the session is checked and the first listing is requested
\* (the tag and statistics loads fill other parts of the page)
initialiserApp ==
    /\ etatApp.utilisateur = ""
    /\ emises < MaxRequetes
    /\ etatApp' = [etatApp EXCEPT !.utilisateur = Utilisateur]
    /\ grille' = Chargement
    /\ pagination' = Masquer(pagination)
    /\ emises' = emises + 1
    /\ requetes' = requetes \cup {RequeteChargerDocuments(emises + 1, etatApp')}
    /\ UNCHANGED <<varsBase, reponse, varsPages, debounceTimer, minuteries, rafale, lancements,
                   lateral, formulaire, champRecherche>>

\* filtrerFavoris(): toggle the filter, back to page 0, chargerDocuments()
filtrerFavoris ==
    /\ emises < MaxRequetes
    /\ etatApp' = [etatApp EXCEPT !.filtres.favoris = ~@, !.filtres.page = 0]
    /\ grille' = Chargement
    /\ pagination' = Masquer(pagination)
    /\ emises' = emises + 1
    /\ requetes' = requetes \cup {RequeteChargerDocuments(emises + 1, etatApp')}
    /\ UNCHANGED <<varsBase, reponse, varsPages, debounceTimer, minuteries, rafale, lancements,
                   lateral, formulaire, champRecherche>>

\* handleSearchInput(terme): one keystroke in the search box
handleSearchInput ==
    \E terme \in TermesSaisis :
        /\ NbFrappes < MaxFrappes
        /\ minuteries' = clearTimeout(debounceTimer) \cup
                           {[id |-> NbFrappes + 1, terme |-> terme, delai |-> Delai(terme),
                             reste |-> Delai(terme) \div UniteMs]}
        /\ debounceTimer' = NbFrappes + 1
        /\ rafale' = Append(rafale, terme)
        /\ champRecherche' = terme
        /\ UNCHANGED <<varsBase, reponse, varsPages, etatApp, requetes, grille, emises,
                       lancements, lateral, formulaire, pagination>>

\* UniteMs milliseconds pass; a timer that is due runs before more time passes
tic ==
    /\ minuteries # {}
    /\ \A m \in minuteries : m.reste > 0
    /\ minuteries' = {[m EXCEPT !.reste = @ - 1] : m \in minuteries}
    /\ UNCHANGED <<varsBase, reponse, varsPages, etatApp, debounceTimer, requetes, grille,
                   emises, rafale, lancements, lateral, formulaire, pagination, champRecherche>>

\* the callback of a timer set by handleSearchInput runs: chargerDocuments()
\* for an emptied box, else afficherChargement() and rechercherDocuments(terme,
\* etatApp.filtres), whose answer is awaited
minuterieExpire ==
    \E m \in minuteries :
      LET req == IF SansTerme(m.terme)
                 THEN RequeteChargerDocuments(emises + 1, etatApp)
                 ELSE RequeteRecherche(emises + 1, m.terme, etatApp)
      IN  /\ m.reste = 0
          /\ emises < MaxRequetes
          /\ minuteries' = minuteries \ {m}
          /\ grille' = Chargement
          /\ pagination' = Masquer(pagination)
          /\ emises' = emises + 1
          /\ requetes' = requetes \cup {req}
          /\ lancements' = Append(lancements,
                                  [terme |-> m.terme, rafale |-> rafale, delai |-> m.delai,
                                   op |-> req.op, requete |-> req.id])
          /\ rafale' = <<>>
          /\ UNCHANGED <<varsBase, reponse, varsPages, etatApp, debounceTimer, lateral,
                         formulaire, champRecherche>>

\* the answer of a request arrives and the code after its await runs
reponseArrive ==
    \E r \in {q \in requetes : q.op \in {"getDocuments", "rechercherDocuments"}} :
      \E res \in IF r.op = "getDocuments"
                 THEN ResGetDocuments(Utilisateur, r.filtres)
                 ELSE ResRechercherDocuments(Utilisateur, r.terme, r.filtres) :
      \E issue \in {"non appelee", "ecrit", "insert refuse"} :
        LET sauve == r.op = "rechercherDocuments" /\ SauvegardeRecherche(r.terme, res) IN
        /\ sauve <=> issue # "non appelee"
        /\ requetes' = requetes \ {r}
        /\ reponse' = [Rep(r.op, Utilisateur, r.terme, r.filtres, 0, res)
                         EXCEPT !.sauvegarde = sauve,
                                !.rejet = IF r.op = "rechercherDocuments"
                                          THEN res.rejet ELSE <<>>,
                                !.historique = issue]
        /\ historique_recherches' = sauvegarderRecherche(Utilisateur, Trim(r.terme), issue)
        /\ grille' = IF res.erreur # "" THEN Erreur(r.id)
                     ELSE Affichage(r.id, res,
                                    IF r.origine = "handleSearchInput" THEN r.terme ELSE <<>>)
        /\ pagination' = IF res.erreur # "" THEN pagination
                         ELSE PaginationAffichee(pagination, res, etatApp.filtres.page)
        /\ etatApp' = IF r.origine = "chargerDocuments" /\ res.erreur = ""
                      THEN [etatApp EXCEPT !.totalDocuments = res.total]
                      ELSE etatApp
        /\ UNCHANGED <<documents, horloge, prochainId, supprimes, journal, varsPages,
                       debounceTimer,
                       minuteries, emises, rafale, lancements, lateral, formulaire,
                       champRecherche>>

NextWeb ==
    \/ initialiserApp
    \/ filtrerFavoris
    \/ handleSearchInput
    \/ tic
    \/ minuterieExpire
    \/ reponseArrive

SpecWeb == InitWeb /\ [][NextWeb]_vars

\* ------------------------------------------------------------ claims, the page
\* C8: once every request is answered, a search result in the grid is the
\* result of the request sent last: the answer of an earlier search that
\* arrives after a later request was sent is not rendered.
C8_LatestRequestWins ==
    (requetes = {} /\ grille.requete # 0 /\ grille.terme # <<>>) =>
        grille.requete = emises

\* two requests are in flight at once, the earlier one a search
C8_Witness ==
    \E r, q \in requetes :
        r.id < q.id /\ r.origine = "handleSearchInput"

\* C9: at most one timer is pending, the one of the last keystroke, with the
\* delay of its term; a query started by a timer is for the last term typed,
\* after the full delay, and is the only one of its burst of keystrokes.
C9_Debounce ==
    /\ Cardinality(minuteries) <= 1
    /\ (rafale # <<>>) <=> (minuteries # {})
    /\ \A m \in minuteries :
          /\ m.id = debounceTimer
          /\ m.terme = rafale[Len(rafale)]
          /\ m.delai = IF SansTerme(m.terme) THEN 200 ELSE 350
          /\ m.reste * UniteMs <= m.delai
    /\ \A i \in 1..Len(lancements) :
          LET l == lancements[i] IN
            /\ l.rafale # <<>>
            /\ l.terme = l.rafale[Len(l.rafale)]
            /\ l.delai = IF SansTerme(l.terme) THEN 200 ELSE 350
            /\ l.op = IF SansTerme(l.terme) THEN "getDocuments" ELSE "rechercherDocuments"
            /\ \A j \in 1..Len(lancements) : lancements[j].requete = l.requete => j = i
    /\ Len(lancements) <= emises

\* a burst of three keystrokes started exactly one query, for the last term
C9_Witness ==
    /\ Len(lancements) = 1
    /\ lancements[1].rafale = <<<<"a">>, <<>>, <<"b">>>>
    /\ lancements[1].terme = <<"b">>
    /\ minuteries = {}
    /\ \E r \in requetes : r.terme = <<"b">> /\ r.id = lancements[1].requete

\* ------------------------------------------------------------ the page: loading and saving
\* initialiserApp and soumettreDocument start chargerDocuments, chargerTags and
\* chargerStats together (Promise.all); each of the three ends on its own, and
\* the tag and statistics requests may fail.
Annexes == {"getTousLesTags", "chargerStats"}

\* how the request of chargerTags or chargerStats ends: answered, answered
\* with an error, or the await rejects
IssuesAnnexe == {"ok", "erreur", "rejet"}

\* the three requests of Promise.all([chargerDocuments(), chargerTags(),
\* chargerStats()]) started by handler origine
Rechargement(id, e, origine) ==
    {RequeteChargerDocuments(id, e)} \cup
    {[id |-> id, op |-> op, terme |-> <<>>, filtres |-> e.filtres, origine |-> origine] :
     op \in Annexes}

\* chargerTags() with the try block only: a rejected await rejects chargerTags
chargerTagsSansCatch(u, issue) ==
    IF issue = "rejet"
    THEN [tags |-> lateral.tags, rejete |-> TRUE]
    ELSE LET tags == IF issue = "erreur" THEN <<>> ELSE ResGetTousLesTags(u) IN
         [tags |-> IF Len(tags) = 0 THEN [etat |-> "Aucun tag", liste |-> <<>>]
                   ELSE [etat |-> "tags", liste |-> tags],
          rejete |-> FALSE]

\* chargerTags() for user u: what the tags container shows afterwards, and
\* whether the promise of chargerTags is rejected.  getTousLesTags returns []
\* when the select answers with an error.
chargerTags(u, issue) ==
    IF issue = "rejet"
    THEN [tags |-> [etat |-> "Erreur", liste |-> <<>>], rejete |-> FALSE]
    ELSE LET tags == IF issue = "erreur" THEN <<>> ELSE ResGetTousLesTags(u) IN
         [tags |-> IF Len(tags) = 0 THEN [etat |-> "Aucun tag", liste |-> <<>>]
                   ELSE [etat |-> "tags", liste |-> tags],
          rejete |-> FALSE]

\* chargerStats() for user u: the two counters afterwards (an answer with an
\* error has count null, shown as 0), and whether its promise is rejected
chargerStats(u, issue) ==
    CASE issue = "ok" ->
           [stats |-> [total |-> Cardinality(Visibles(u)),
                       favoris |-> Cardinality({d \in Visibles(u) : d.est_favori})],
            rejete |-> FALSE]
      [] issue = "erreur" -> [stats |-> [total |-> 0, favoris |-> 0], rejete |-> FALSE]
      [] OTHER -> [stats |-> lateral.stats, rejete |-> FALSE]

\* the catch block of the handler that awaits a rejected Promise.all:
\* initialiserApp puts its message in the grid, soumettreDocument in the form
GrilleApresRejet(origine) ==
    IF origine = "initialiserApp" THEN Erreur(0) ELSE grille

\* initialiserApp(), all of it
initialiserAppComplet ==
    /\ etatApp.utilisateur = ""
    /\ emises < MaxRequetes
    /\ etatApp' = [etatApp EXCEPT !.utilisateur = Utilisateur]
    /\ grille' = Chargement
    /\ pagination' = Masquer(pagination)
    /\ emises' = emises + 1
    /\ requetes' = requetes \cup Rechargement(emises + 1, etatApp', "initialiserApp")
    /\ UNCHANGED <<varsBase, reponse, varsPages, debounceTimer, minuteries, rafale, lancements,
                   lateral, formulaire, champRecherche>>

\* ouvrirModalAjout(): the form is reset and shown for a new document
ouvrirModalAjout ==
    /\ etatApp.utilisateur # ""
    /\ ~formulaire.ouvert
    /\ formulaire' = [formulaire EXCEPT !.ouvert = TRUE, !.docId = 0, !.erreur = "",
                                        !.bouton.textContent = "Enregistrer"]
    /\ UNCHANGED <<varsBase, reponse, varsPages, etatApp, debounceTimer, minuteries, requetes,
                   grille, emises, rafale, lancements, lateral, pagination, champRecherche>>

\* ouvrirModalModif(docId) from the pencil of a card: getDocument(docId), then
\* the form is filled and shown; a failure is an alert
ouvrirModalModif ==
    \E c \in CartesCliquees :
      LET res == ResGetDocument(Utilisateur, c.id) IN
        /\ ~formulaire.ouvert
        /\ reponse' = Rep("getDocument", Utilisateur, <<>>, FiltresDefaut, c.id, res)
        /\ formulaire' = IF res.erreur = ""
                         THEN [formulaire EXCEPT !.ouvert = TRUE, !.docId = c.id,
                                                 !.erreur = "",
                                                 !.bouton.textContent = "Sauvegarder"]
                         ELSE formulaire
        /\ UNCHANGED <<varsBase, varsPages, etatApp, debounceTimer, minuteries, requetes,
                       grille, emises, rafale, lancements, lateral, pagination,
                       champRecherche>>

\* fermerModal()
fermerModal ==
    /\ formulaire.ouvert
    /\ formulaire' = [formulaire EXCEPT !.ouvert = FALSE]
    /\ UNCHANGED <<varsBase, reponse, varsPages, etatApp, debounceTimer, minuteries, requetes,
                   grille, emises, rafale, lancements, lateral, pagination, champRecherche>>

\* what the form submits
SaisiesFormulaire == {SaisieContenu, SaisieTypeInconnu}

\* soumettreDocument(event) up to its first await: the submit event of the shown
\* form, which a disabled submit button does not fire
soumettreDocument ==
    \E data \in SaisiesFormulaire :
        /\ etatApp.utilisateur # ""
        /\ formulaire.ouvert
        /\ ~formulaire.bouton.disabled
        /\ formulaire' = [formulaire EXCEPT
                            !.bouton = [disabled |-> TRUE, textContent |-> "Sauvegarde..."],
                            !.erreur = "",
                            !.envoi = Val(data)]
        /\ UNCHANGED <<varsBase, reponse, varsPages, etatApp, debounceTimer, minuteries,
                       requetes, grille, emises, rafale, lancements, lateral, pagination,
                       champRecherche>>

\* INSERT INTO documents by ajouterDocument(data) for user u: the table and the
\* outcome of the call
Inserer(u, data) ==
    LET d == LigneInseree(u, data, prochainId, horloge + 1) IN
        /\ IF CheckTypeDoc(d) /\ WithCheck(u, d)
           THEN /\ Ecritures < MaxEcritures
                /\ documents' = documents \cup {d}
                /\ horloge' = horloge + 1
                /\ prochainId' = prochainId + 1
                /\ reponse' = Rep("ajouterDocument", u, <<>>, FiltresDefaut, d.id,
                                  [documents |-> <<d>>, total |-> 1, erreur |-> ""])
           ELSE /\ reponse' = Rep("ajouterDocument", u, <<>>, FiltresDefaut, 0,
                                  [documents |-> <<>>, total |-> 0,
                                   erreur |-> "Erreur lors de la création du document"])
                /\ UNCHANGED <<documents, horloge, prochainId>>
        /\ UNCHANGED <<historique_recherches, supprimes>>

\* the catch block of soumettreDocument: the message is shown and the button
\* enabled; the line that restores the label reads docId, a const of the try
\* block, and throws before it assigns
FormulaireApresEchec(f, message) ==
    [f EXCEPT !.erreur = message, !.envoi = Nul, !.bouton.disabled = FALSE]

\* the success path of soumettreDocument: fermerModal(), the button is left as
\* the submit set it
FormulaireApresSucces(f) ==
    [f EXCEPT !.ouvert = FALSE, !.envoi = Nul]

\* the rest of soumettreDocument: ajouterDocument(data) or modifierDocument(docId,
\* data) is answered; after a success the form is closed and the three reloads
\* start, after a failure the catch block runs
soumettreDocumentSuite ==
    /\ ~EstNul(formulaire.envoi)
    /\ IF formulaire.docId = 0
       THEN Inserer(Utilisateur, formulaire.envoi[1])
       ELSE Appliquer(Utilisateur, formulaire.docId, formulaire.envoi[1], "modifierDocument")
    /\ IF reponse'.erreur = ""
       THEN /\ emises < MaxRequetes
            /\ formulaire' = FormulaireApresSucces(formulaire)
            /\ grille' = Chargement
            /\ pagination' = Masquer(pagination)
            /\ emises' = emises + 1
            /\ requetes' = requetes \cup
                             Rechargement(emises + 1, etatApp, "soumettreDocument")
       ELSE /\ formulaire' = FormulaireApresEchec(formulaire, reponse'.erreur)
            /\ UNCHANGED <<grille, pagination, emises, requetes>>
    /\ UNCHANGED <<journal, varsPages, etatApp, debounceTimer, minuteries, rafale, lancements,
                   lateral, champRecherche>>

\* the request of chargerTags ends and the rest of chargerTags runs
chargerTagsTermine ==
    \E r \in {q \in requetes : q.op = "getTousLesTags"}, issue \in IssuesAnnexe :
      LET c == chargerTags(Utilisateur, issue) IN
        /\ requetes' = requetes \ {r}
        /\ lateral' = [lateral EXCEPT !.tags = c.tags]
        /\ grille' = IF c.rejete THEN GrilleApresRejet(r.origine) ELSE grille
        /\ UNCHANGED <<varsBase, reponse, varsPages, etatApp, debounceTimer, minuteries,
                       emises, rafale, lancements, formulaire, pagination, champRecherche>>

\* the requests of chargerStats end and the rest of chargerStats runs
chargerStatsTermine ==
    \E r \in {q \in requetes : q.op = "chargerStats"}, issue \in IssuesAnnexe :
      LET c == chargerStats(Utilisateur, issue) IN
        /\ requetes' = requetes \ {r}
        /\ lateral' = [lateral EXCEPT !.stats = c.stats]
        /\ grille' = IF c.rejete THEN GrilleApresRejet(r.origine) ELSE grille
        /\ UNCHANGED <<varsBase, reponse, varsPages, etatApp, debounceTimer, minuteries,
                       emises, rafale, lancements, formulaire, pagination, champRecherche>>

NextChargement ==
    \/ initialiserAppComplet
    \/ ouvrirModalAjout
    \/ ouvrirModalModif
    \/ fermerModal
    \/ soumettreDocument
    \/ soumettreDocumentSuite
    \/ reponseArrive
    \/ chargerTagsTermine
    \/ chargerStatsTermine

SpecChargement == InitPannes /\ [][NextChargement]_vars

\* C20: when the tag listing or the statistics load ends, failed or not, the
\* grid keeps what it shows and the listing requests in flight stay in flight;
\* the grid changes only when a listing is started or answered.
C20_BestEffortTags ==
    [][\A r \in requetes :
          (r.op \in Annexes /\ r \notin requetes') =>
             /\ grille' = grille
             /\ \A q \in requetes : q.op \notin Annexes => q \in requetes']_vars

\* after a save, the tag listing and the statistics load failed and the grid
\* shows the documents of the listing
C20_Witness ==
    /\ requetes = {}
    /\ prochainId > 4
    /\ lateral.tags.etat = "Erreur"
    /\ lateral.stats = [total |-> 0, favoris |-> 0]
    /\ grille.etat = "documents"
    /\ grille.requete = emises
    /\ Len(grille.documents) = 3

\* ------------------------------------------------------------ history and deletes
\* The table holds stored rows of both users; the users search, which writes
\* history rows, and delete their rows.
NextHistorique ==
    \/ rechercherDocuments
    \/ supprimerDocument

SpecHistorique == InitPannes /\ [][NextHistorique]_vars

\* a history row that depends on the stored row s: a search of the owner of s
\* whose term s matched
Depend(h, s) ==
    /\ h.user_id = s.user_id
    /\ Correspond(s.search_vector, plainto_tsquery(Trim(h.terme_recherche)))

\* C21: when supprimerDocument has removed a row, no history row that depends on
\* that row and its owner remains in historique_recherches.
C21_DeleteCascadesHistory ==
    (reponse.op = "supprimerDocument" /\ reponse.erreur = "") =>
        \A s \in supprimes :
            s.id = reponse.id =>
                \A i \in 1..Len(historique_recherches) :
                    ~Depend(historique_recherches[i], s)

\* a row was deleted whose owner had searched and found it
C21_Witness ==
    /\ reponse.op = "supprimerDocument"
    /\ \E s \in supprimes :
          /\ s.id = reponse.id
          /\ \E i \in 1..Len(historique_recherches) : Depend(historique_recherches[i], s)

\* ------------------------------------------------------------ updates in flight
\* modifierDocument has one await: the UPDATE request. Several calls, of the
\* sessions of one user, may have sent their request before any is answered; the
\* database runs each UPDATE as one statement, in the order in which they reach it.

\* what the callers pass to modifierDocument here: two values for the title, one
\* with an owner field, the other with a content
ModifsEnVol ==
    {[titre |-> <<"b", " ">>, user_id |-> "u2"],
     [titre |-> <<"c">>, contenu |-> Val(<<"b">>)]}

\* the rows the calls name: the two rows of u1
CiblesEnVol == {1, 2}

RequeteModification(n, op, u, id, data) ==
    [id |-> n, op |-> op, par |-> u, cible |-> id, data |-> data]

Envoyer(r) ==
    /\ emises < MaxRequetes
    /\ emises' = emises + 1
    /\ requetes' = requetes \cup {r}
    /\ UNCHANGED <<varsBase, reponse, varsPages, etatApp, debounceTimer, minuteries, grille,
                   rafale, lancements, lateral, formulaire, pagination, champRecherche>>

\* modifierDocument(id, data) called in a session of u1, up to its await
modifierDocumentEnvoi ==
    \E id \in CiblesEnVol, data \in ModifsEnVol :
        Envoyer(RequeteModification(emises + 1, "modifierDocument", Utilisateur, id, data))

\* toggleFavori(id, estFavori) called in a session of u1, up to the await of
\* modifierDocument
toggleFavoriEnvoi ==
    \E id \in CiblesEnVol, estFavori \in BOOLEAN :
        Envoyer(RequeteModification(emises + 1, "toggleFavori", Utilisateur, id,
                                    [est_favori |-> estFavori]))

\* the database runs the UPDATE of request r and modifierDocument returns or throws
Repondre(r) ==
    /\ Appliquer(r.par, r.cible, r.data, r.op)
    /\ requetes' = requetes \ {r}
    /\ journal' = Append(journal, [requete |-> r, succes |-> reponse'.erreur = "",
                                   enVol |-> requetes \ {r}])
    /\ UNCHANGED <<varsPages, etatApp, debounceTimer, minuteries, grille, emises, rafale,
                   lancements, lateral, formulaire, pagination, champRecherche>>

modifierDocumentReponse == \E r \in requetes : Repondre(r)

NextModifs ==
    \/ modifierDocumentEnvoi
    \/ toggleFavoriEnvoi
    \/ modifierDocumentReponse

SpecModifs == InitPannes /\ [][NextModifs]_vars

\* the request of the last step, when that step answered one
Repondue == journal'[Len(journal')].requete

\* the answered requests that have written column k of row id, by journal position
EcrituresDe(id, k) ==
    {i \in 1..Len(journal) :
        /\ journal[i].succes
        /\ journal[i].requete.cible = id
        /\ k \in DOMAIN UpdateData(journal[i].requete.data)}

\* C23: of the modifierDocument calls that have written a column of a row, the
\* one answered last decides the stored value, which is that call's value as a
\* whole; and a request in flight can be answered next whatever other requests
\* are in flight, on the same row or on another.
C23_LastWriteWins ==
    /\ \A d \in documents : \A k \in ChampsModifiables :
          LET S == EcrituresDe(d.id, k) IN
            S # {} =>
               LET dernier == CHOOSE i \in S : \A j \in S : j <= i IN
                 d[k] = UpdateData(journal[dernier].requete.data)[k]
    /\ \A r \in requetes : Ecritures < MaxEcritures => ENABLED Repondre(r)

\* two calls have set the title of the same row to different values; both were
\* in flight together, the one sent first was answered last, and its title is
\* the stored one
C23_Witness ==
    /\ Len(journal) = 2
    /\ journal[1].succes /\ journal[2].succes
    /\ journal[2].requete \in journal[1].enVol
    /\ journal[2].requete.id < journal[1].requete.id
    /\ journal[1].requete.cible = journal[2].requete.cible
    /\ journal[1].requete.op = "modifierDocument"
    /\ journal[2].requete.op = "modifierDocument"
    /\ journal[1].requete.data.titre = <<"c">>
    /\ journal[2].requete.data.titre = <<"b", " ">>
    /\ \E d \in documents :
          /\ d.id = journal[1].requete.cible
          /\ d.titre = <<"b">>
          /\ d.contenu = Val(<<"b">>)

\* the columns of a row other than the generated vector
Champs ==
    {"id", "user_id", "titre", "description", "type_doc", "contenu", "tags",
     "date_creation", "date_modification", "taille_kb", "est_favori"}

\* C24: an answered modifierDocument changes, in the row it names, only the
\* columns its data holds and date_modification, and changes no other row; a
\* toggleFavori changes est_favori and date_modification only. The generated
\* vector follows the texts.
C24_PartialUpdateFrame ==
    [][\A d \in documents :
          d \notin documents' =>
             /\ Len(journal') = Len(journal) + 1
             /\ Repondue.cible = d.id
             /\ \E e \in documents' :
                   /\ e.id = d.id
                   /\ \A k \in Champs \ {"date_modification"} :
                         k \notin DOMAIN UpdateData(Repondue.data) => e[k] = d[k]
                   /\ Repondue.op = "toggleFavori" =>
                         \A k \in Champs \ {"est_favori", "date_modification"} :
                             e[k] = d[k]
                   /\ e = Regenerer(e)]_vars

\* a title update and a toggleFavori have been answered for the same row, which
\* keeps its tags and type, has the new title and is a favourite
C24_Witness ==
    /\ Len(journal) = 2
    /\ journal[1].succes /\ journal[2].succes
    /\ journal[1].requete.cible = 1 /\ journal[2].requete.cible = 1
    /\ journal[1].requete.data = [titre |-> <<"b", " ">>, user_id |-> "u2"]
    /\ journal[2].requete.data = [est_favori |-> TRUE]
    /\ \E d \in documents :
          /\ d.id = 1
          /\ d.titre = <<"b">>
          /\ d.est_favori
          /\ d.tags = LigneInseree("u1", SaisieTitre, 1, 0).tags
          /\ d.type_doc = Val("note")
          /\ d.date_creation = 0 /\ d.date_modification = 2

\* ------------------------------------------------------------ navigation
\* The page of u1 over a table of one row more than a page holds, after its
\* first load.  The user acts when no request is in flight; every handler runs
\* up to the await of its reload, and the reload is answered in a later step.
NbNavigation == DOCS_PAR_PAGE + 1

\* the rows of the table: one tag, the oldest row a favourite, titles a, aa, ...
LigneNavigation(i) ==
    LigneInseree(Utilisateur,
                 [SaisieSeed(i) EXCEPT !.tags = Val(<< <<"x">> >>), !.est_favori = (i = 1)],
                 i, i - NbNavigation)

InitNavigation ==
    /\ documents = {LigneNavigation(i) : i \in 1..NbNavigation}
    /\ historique_recherches = <<>>
    /\ horloge = 0
    /\ prochainId = NbNavigation + 1
    /\ supprimes = {}
    /\ journal = <<>>
    /\ reponse = ReponseVide
    /\ InitPages
    /\ etatApp = [utilisateur |-> Utilisateur, filtres |-> FiltresDefaut,
                  totalDocuments |-> NbNavigation, rechercheCourante |-> <<>>]
    /\ debounceTimer = 0
    /\ minuteries = {}
    /\ requetes = {}
    /\ \E res \in ResGetDocuments(Utilisateur, FiltresDefaut) :
          /\ grille = Affichage(0, res, <<>>)
          /\ pagination = PaginationAffichee(PaginationCachee, res, 0)
    /\ emises = 0
    /\ rafale = <<>>
    /\ lancements = <<>>
    /\ lateral = [tags |-> chargerTags(Utilisateur, "ok").tags,
                  stats |-> chargerStats(Utilisateur, "ok").stats]
    /\ formulaire = FormulaireFerme
    /\ champRecherche = <<>>

\* chargerDocuments() up to its await, with the page state e, next to the other
\* requests the handler starts
chargerDocuments(e, autres) ==
    /\ emises < MaxRequetes
    /\ etatApp' = e
    /\ grille' = Chargement
    /\ pagination' = Masquer(pagination)
    /\ emises' = emises + 1
    /\ requetes' = requetes \cup {RequeteChargerDocuments(emises + 1, e)} \cup autres

\* the request of chargerStats() started by handler origine
RequeteStats(id, e, origine) ==
    [id |-> id, op |-> "chargerStats", terme |-> <<>>, filtres |-> e.filtres,
     origine |-> origine]

\* filtrerParType(btn, type): the type filter, back to page 0, chargerDocuments()
filtrerParType ==
    \E type \in {"", "note", "pdf"} :
        /\ requetes = {}
        /\ chargerDocuments([etatApp EXCEPT !.filtres.type_doc = type, !.filtres.page = 0], {})
        /\ UNCHANGED <<varsBase, reponse, varsPages, debounceTimer, minuteries, rafale,
                       lancements, lateral, formulaire, champRecherche>>

\* the tags of the filter after a click on the badge of tag
BasculerTag(tags, tag) ==
    IF tag \in Elements(tags)
    THEN SelectSeq(tags, LAMBDA t : t # tag)
    ELSE Append(tags, tag)

\* filtrerParTag(badge, tag) for a badge of the sidebar
filtrerParTag ==
    \E tag \in Elements(lateral.tags.liste) :
        /\ requetes = {}
        /\ chargerDocuments([etatApp EXCEPT !.filtres.tags = BasculerTag(@, tag),
                                            !.filtres.page = 0], {})
        /\ UNCHANGED <<varsBase, reponse, varsPages, debounceTimer, minuteries, rafale,
                       lancements, lateral, formulaire, champRecherche>>

\* changerTri(tri)
changerTri ==
    \E tri \in {"date_creation", "titre"} :
        /\ requetes = {}
        /\ chargerDocuments([etatApp EXCEPT !.filtres.tri = tri, !.filtres.page = 0], {})
        /\ UNCHANGED <<varsBase, reponse, varsPages, debounceTimer, minuteries, rafale,
                       lancements, lateral, formulaire, champRecherche>>

\* changerPage(direction) from the previous or next button, when the bar is
\* shown and the button is enabled
changerPage ==
    \E direction \in {-1, 1} :
        /\ requetes = {}
        /\ pagination.visible
        /\ direction = -1 => ~pagination.prevDisabled
        /\ direction = 1 => ~pagination.nextDisabled
        /\ chargerDocuments([etatApp EXCEPT !.filtres.page = @ + direction], {})
        /\ UNCHANGED <<varsBase, reponse, varsPages, debounceTimer, minuteries, rafale,
                       lancements, lateral, formulaire, champRecherche>>

TermesNavigation == {<<>>, <<"a">>}

\* handleSearchInput(terme) and the callback of its timer, run with no other
\* keystroke in between
rechercheLancee ==
    \E terme \in TermesNavigation :
        /\ requetes = {}
        /\ terme # champRecherche
        /\ emises < MaxRequetes
        /\ champRecherche' = terme
        /\ debounceTimer' = debounceTimer + 1
        /\ grille' = Chargement
        /\ pagination' = Masquer(pagination)
        /\ emises' = emises + 1
        /\ requetes' = {IF SansTerme(terme)
                        THEN RequeteChargerDocuments(emises + 1, etatApp)
                        ELSE RequeteRecherche(emises + 1, terme, etatApp)}
        /\ UNCHANGED <<varsBase, reponse, varsPages, etatApp, minuteries, rafale, lancements,
                       lateral, formulaire>>

\* demanderSuppression(docId) confirmed: supprimerDocument(docId), then
\* chargerDocuments() and chargerStats()
demanderSuppression ==
    \E c \in CartesCliquees :
      LET cibles == {d \in Visibles(Utilisateur) : d.id = c.id} IN
        /\ requetes = {}
        /\ Ecritures < MaxEcritures
        /\ documents' = documents \ cibles
        /\ supprimes' = supprimes \cup cibles
        /\ horloge' = horloge + 1
        /\ reponse' = Rep("supprimerDocument", Utilisateur, <<>>, FiltresDefaut, c.id,
                          [documents |-> <<>>, total |-> 0, erreur |-> ""])
        /\ chargerDocuments(etatApp,
                            {RequeteStats(emises + 1, etatApp, "demanderSuppression")})
        /\ UNCHANGED <<historique_recherches, prochainId, journal, varsPages, debounceTimer,
                       minuteries, rafale, lancements, lateral, formulaire, champRecherche>>

\* basculerFavori(docId, nouvelEtat) from the star of a card: toggleFavori, then
\* chargerDocuments() and chargerStats(); a failure is an alert
basculerFavori ==
    \E c \in CartesCliquees :
        /\ requetes = {}
        /\ Appliquer(Utilisateur, c.id, [est_favori |-> ~c.est_favori], "toggleFavori")
        /\ IF reponse'.erreur = ""
           THEN chargerDocuments(etatApp,
                                 {RequeteStats(emises + 1, etatApp, "basculerFavori")})
           ELSE UNCHANGED <<etatApp, grille, pagination, emises, requetes>>
        /\ UNCHANGED <<journal, varsPages, debounceTimer, minuteries, rafale, lancements,
                       lateral, formulaire, champRecherche>>

NextNavigation ==
    \/ filtrerParType
    \/ filtrerParTag
    \/ filtrerFavoris
    \/ changerTri
    \/ changerPage
    \/ rechercheLancee
    \/ demanderSuppression
    \/ basculerFavori
    \/ reponseArrive
    \/ chargerStatsTermine

SpecNavigation == InitNavigation /\ [][NextNavigation]_vars

\* C25: whenever the grid shows a listing, the current page is one of the pages
\* of that listing: 0 <= page < max(1, ceil(total / DOCS_PAR_PAGE)).
C25_PageInRange ==
    (requetes = {} /\ grille.etat \in {"documents", "vide"}) =>
        /\ 0 <= etatApp.filtres.page
        /\ etatApp.filtres.page < (IF TotalPages(grille.total) > 1
                                   THEN TotalPages(grille.total) ELSE 1)

\* the only row of the second page was deleted: the grid is empty on page 1 of
\* a listing of one page, and the pagination bar is hidden
C25_Witness ==
    /\ requetes = {}
    /\ supprimes # {}
    /\ grille.etat = "vide"
    /\ grille.total = DOCS_PAR_PAGE
    /\ etatApp.filtres.page = 1
    /\ ~pagination.visible

\* C26: when the grid shows the results handleSearchInput got for the term the
\* search box holds and a handler reloads the grid through chargerDocuments, the
\* request of the reload is the search for that term.
C26_SearchModePersists ==
    [][(/\ ~SansTerme(champRecherche)
        /\ champRecherche' = champRecherche
        /\ grille.etat \in {"documents", "vide"}
        /\ grille.terme = champRecherche) =>
           \A r \in requetes' \ requetes :
               r.origine = "chargerDocuments" =>
                   r.op = "rechercherDocuments" /\ r.terme = champRecherche]_vars

\* the box holds a term whose result was shown, and after a change of the sort
\* column the grid shows the first page of the listing of all rows
C26_Witness ==
    /\ requetes = {}
    /\ champRecherche = <<"a">>
    /\ etatApp.filtres.tri = "titre"
    /\ grille.etat = "documents"
    /\ grille.terme = <<>>
    /\ grille.total = NbNavigation
    /\ historique_recherches # <<>>

\* C27: while soumettreDocument awaits its save the submit button is disabled,
\* and whenever the form is shown again with no save awaited, the button is
\* enabled and carries the label of the form's mode.
C27_SubmitButtonRecovers ==
    [][/\ ~EstNul(formulaire'.envoi) => formulaire'.bouton.disabled
       /\ (formulaire'.ouvert /\ ~formulaire.ouvert /\ EstNul(formulaire'.envoi)) =>
             /\ ~formulaire'.bouton.disabled
             /\ formulaire'.bouton.textContent =
                  IF formulaire'.docId # 0 THEN "Sauvegarder" ELSE "Enregistrer"]_vars

\* a document was saved through the form, and the form is shown again for a new
\* document with its button disabled
C27_Witness ==
    /\ prochainId > 4
    /\ formulaire.ouvert
    /\ formulaire.docId = 0
    /\ EstNul(formulaire.envoi)
    /\ formulaire.bouton = [disabled |-> TRUE, textContent |-> "Enregistrer"]

====
